---- MODULE Spec2Model ----
(***************************************************************************)
(* Model of the C# code that scripts/convert_descbodypart.py writes into   *)
(* DescBodyPart.cs: the static initializer InitializeDescBodyParts, which  *)
(* converts every BucketList of tempDict into a (MaxWeight, Items) pair of *)
(* cumulative weights, and GetRandom, which binary-searches such a pair.   *)
(*                                                                         *)
(* C# int is a 32-bit signed integer and the generated code is compiled    *)
(* in the language's default unchecked context, so  +=  wraps modulo 2^32. *)
(* The wrapping addition is written by cases, so that no intermediate      *)
(* value leaves the int range.                                             *)
(***************************************************************************)
EXTENDS Integers, Sequences, FiniteSets, TLC

\* ---------------------------------------------------------------- bounds
\* Largest number of (item, probability) rows in the whole source table.
MaxEntries == 3
\* Targets below this value are all tried; above it only boundary targets.
MaxTarget == 1

\* ------------------------------------------------------------- C# int
IntMax == 2147483647
IntMin == -IntMax - 1

\* a + b in an unchecked context of C#: the sum modulo 2^32, as a signed
\* 32-bit value.
AddInt32(a, b) ==
    IF b > 0 /\ a > IntMax - b THEN ((a - IntMax) + (b - IntMax)) - 2
    ELSE IF b < 0 /\ a < IntMin - b THEN ((a + IntMax) + (b + IntMax)) + 2
    ELSE a + b

\* ------------------------------------------------------------- inputs
\* Keys of tempDict (modalities), the probabilities a row may carry, and
\* the threads that call GetRandom.
Keys == {"CT", "MR"}
Weights == {-1, 0, 1, 3, IntMax}
Threads == {"t1", "t2"}

\* The DescBodyPart of the i-th row of key k; rows carry distinct items so
\* that a returned value identifies the entry it came from.
Item(k, i) == <<k, i>>

\* The BucketList of key k in a source table given as a sequence of
\* <<key, probability>> rows: the rows of k, in order.
BucketListOf(rows, k) ==
    LET mine == SelectSeq(rows, LAMBDA r : r[1] = k)
    IN  [i \in 1..Len(mine) |-> <<Item(k, i), mine[i][2]>>]

\* The worked example of the design: weights 3, 5, 2 under one key.
ExampleRows == <<(<<"CT", 3>>), (<<"CT", 5>>), (<<"CT", 2>>)>>

\* The source tables tried: every table of at most MaxEntries rows, and the
\* worked example.
SourceTables ==
    UNION {[1..n -> Keys \X Weights] : n \in 0..MaxEntries} \cup {ExampleRows}

RowKeys(rows) == {rows[i][1] : i \in 1..Len(rows)}

VARIABLES
    tempDict,   \* key -> BucketList: sequence of <<item, probability>>
    status,     \* "uninit" before the static initializer ran, then "ready"
    d,          \* key -> [MaxWeight, Items]; the static readonly field d
    pc,         \* per thread: "idle", "loop", "done", "threw"
    data,       \* per thread: key of the entry of d passed as data
    target,     \* per thread: local target
    left,       \* per thread: local left
    right,      \* per thread: local right
    ret,        \* per thread: value returned by the last completed call
    exc         \* per thread: exception thrown by the last call, or "none"

vars == <<tempDict, status, d, pc, data, target, left, right, ret, exc>>

NoValue == <<>>

\* ----------------------------------------------- InitializeDescBodyParts
\* Lines 30-37: the inner foreach over one BucketList, with the running
\* sum  cumulative  and the growing  list.
RECURSIVE Accumulate(_, _, _)
Accumulate(bucket, cumulative, list) ==
    IF bucket = <<>>
    THEN [MaxWeight |-> cumulative, Items |-> list]
    ELSE LET c == AddInt32(cumulative, Head(bucket)[2])
         IN  Accumulate(Tail(bucket), c,
                        Append(list, [CumulativeWeight |-> c,
                                      Value |-> Head(bucket)[1]]))

ConvertBucketList(bucket) == Accumulate(bucket, 0, <<>>)

InitializeDescBodyParts ==
    /\ status = "uninit"
    /\ d' = [k \in DOMAIN tempDict |-> ConvertBucketList(tempDict[k])]
    /\ status' = "ready"
    /\ UNCHANGED <<tempDict, pc, data, target, left, right, ret, exc>>

\* ------------------------------------------------------------ GetRandom
Min(a, b) == IF a < b THEN a ELSE b

\* The targets tried for r.Next(maxValue), maxValue > 0: every value
\* below MaxTarget, the last value, and both sides of every boundary.
TargetSample(dt) ==
    LET mw == dt.MaxWeight
        cw == {dt.Items[i].CumulativeWeight : i \in 1..Len(dt.Items)}
        pos == {c \in cw : c >= 1}
    IN  {x \in (0..(Min(mw, MaxTarget) - 1)) \cup {mw - 1} \cup pos
               \cup {c - 1 : c \in pos} : x >= 0 /\ x < mw}

\* Random.Next(maxValue): a value in [0, maxValue), or 0 when maxValue = 0.
NextInt(dt) == IF dt.MaxWeight = 0 THEN {0} ELSE TargetSample(dt)

\* Line 52: the midpoint.
Mid(l, r) == l + ((r - l) \div 2)

\* LoopBody with line 56 narrowing to mid - 1, as a search over a closed
\* interval would.
LoopBodyClosedInterval(items, tg, l, r) ==
    LET mid == Mid(l, r)
    IN  IF items[mid + 1].CumulativeWeight <= tg
        THEN <<mid + 1, r>>
        ELSE <<l, mid - 1>>

\* Lines 52-56: one iteration of the while loop; Items is 0-based in the
\* code and 1-based here.
LoopBody(items, tg, l, r) ==
    LET mid == Mid(l, r)
    IN  IF items[mid + 1].CumulativeWeight <= tg
        THEN <<mid + 1, r>>
        ELSE <<l, mid>>

\* Lines 48-59 run by one caller alone: the index the loop ends on, and
\* the value (or the exception) that line 59 produces from it.
RECURSIVE Search(_, _, _, _)
Search(items, tg, l, r) ==
    IF l < r
    THEN LET lr == LoopBody(items, tg, l, r)
         IN  Search(items, tg, lr[1], lr[2])
    ELSE l

SearchIndex(items, tg) == Search(items, tg, 0, Len(items) - 1)

GetRandom(dt, tg) ==
    LET l == SearchIndex(dt.Items, tg)
    IN  IF l >= 0 /\ l < Len(dt.Items)
        THEN dt.Items[l + 1].Value
        ELSE "IndexOutOfRangeException"

\* GetRandomCall with left kept across calls (a field instead of the local
\* of line 48), so that a search starts where the caller's last one ended.
GetRandomCallKeepsLeft(t) ==
    /\ status = "ready"
    /\ pc[t] # "loop"
    /\ \E k \in DOMAIN d :
         /\ data' = [data EXCEPT ![t] = k]
         /\ IF d[k].MaxWeight < 0
            THEN /\ pc' = [pc EXCEPT ![t] = "threw"]
                 /\ exc' = [exc EXCEPT ![t] = "ArgumentOutOfRangeException"]
                 /\ ret' = [ret EXCEPT ![t] = NoValue]
                 /\ UNCHANGED <<target, left, right>>
            ELSE \E tg \in NextInt(d[k]) :
                 /\ target' = [target EXCEPT ![t] = tg]
                 /\ left' = left
                 /\ right' = [right EXCEPT ![t] = Len(d[k].Items) - 1]
                 /\ pc' = [pc EXCEPT ![t] = "loop"]
                 /\ exc' = [exc EXCEPT ![t] = "none"]
                 /\ ret' = [ret EXCEPT ![t] = NoValue]
    /\ UNCHANGED <<tempDict, status, d>>

\* Lines 47-48: draw the target and set up the search.
GetRandomCall(t) ==
    /\ status = "ready"
    /\ pc[t] # "loop"
    /\ \E k \in DOMAIN d :
         /\ data' = [data EXCEPT ![t] = k]
         /\ IF d[k].MaxWeight < 0
            THEN /\ pc' = [pc EXCEPT ![t] = "threw"]
                 /\ exc' = [exc EXCEPT ![t] = "ArgumentOutOfRangeException"]
                 /\ ret' = [ret EXCEPT ![t] = NoValue]
                 /\ UNCHANGED <<target, left, right>>
            ELSE \E tg \in NextInt(d[k]) :
                 /\ target' = [target EXCEPT ![t] = tg]
                 /\ left' = [left EXCEPT ![t] = 0]
                 /\ right' = [right EXCEPT ![t] = Len(d[k].Items) - 1]
                 /\ pc' = [pc EXCEPT ![t] = "loop"]
                 /\ exc' = [exc EXCEPT ![t] = "none"]
                 /\ ret' = [ret EXCEPT ![t] = NoValue]
    /\ UNCHANGED <<tempDict, status, d>>

\* Lines 50-57: the loop test succeeds and the body runs once.
GetRandomLoop(t) ==
    /\ pc[t] = "loop"
    /\ left[t] < right[t]
    /\ LET lr == LoopBody(d[data[t]].Items, target[t], left[t], right[t])
       IN  /\ left' = [left EXCEPT ![t] = lr[1]]
           /\ right' = [right EXCEPT ![t] = lr[2]]
    /\ UNCHANGED <<tempDict, status, d, pc, data, target, ret, exc>>

\* GetRandomReturn that also moves the returned value to the front of the
\* shared array, as a self-organising list would.
GetRandomReturnMoveToFront(t) ==
    /\ pc[t] = "loop"
    /\ ~(left[t] < right[t])
    /\ LET items == d[data[t]].Items
       IN  IF left[t] >= 0 /\ left[t] < Len(items)
           THEN /\ ret' = [ret EXCEPT ![t] = items[left[t] + 1].Value]
                /\ pc' = [pc EXCEPT ![t] = "done"]
                /\ exc' = exc
                /\ d' = [d EXCEPT ![data[t]].Items =
                           [items EXCEPT ![1].Value = items[left[t] + 1].Value,
                                         ![left[t] + 1].Value = items[1].Value]]
           ELSE /\ pc' = [pc EXCEPT ![t] = "threw"]
                /\ exc' = [exc EXCEPT ![t] = "IndexOutOfRangeException"]
                /\ ret' = ret
                /\ d' = d
    /\ UNCHANGED <<tempDict, status, data, target, left, right>>

\* Line 59: the loop test fails and data.Items[left].Value is returned; an
\* index outside the array throws.
GetRandomReturn(t) ==
    /\ pc[t] = "loop"
    /\ ~(left[t] < right[t])
    /\ LET items == d[data[t]].Items
       IN  IF left[t] >= 0 /\ left[t] < Len(items)
           THEN /\ ret' = [ret EXCEPT ![t] = items[left[t] + 1].Value]
                /\ pc' = [pc EXCEPT ![t] = "done"]
                /\ exc' = exc
           ELSE /\ pc' = [pc EXCEPT ![t] = "threw"]
                /\ exc' = [exc EXCEPT ![t] = "IndexOutOfRangeException"]
                /\ ret' = ret
    /\ UNCHANGED <<tempDict, status, d, data, target, left, right>>

\* ------------------------------------------------------- specification
Init ==
    /\ \E ks \in SUBSET Keys, rows \in SourceTables :
            tempDict = [k \in ks \cup RowKeys(rows) |-> BucketListOf(rows, k)]
    /\ status = "uninit"
    /\ d = <<>>
    /\ pc = [t \in Threads |-> "idle"]
    /\ data = [t \in Threads |-> "CT"]
    /\ target = [t \in Threads |-> 0]
    /\ left = [t \in Threads |-> 0]
    /\ right = [t \in Threads |-> 0]
    /\ ret = [t \in Threads |-> NoValue]
    /\ exc = [t \in Threads |-> "none"]

Next ==
    \/ InitializeDescBodyParts
    \/ \E t \in Threads : GetRandomCall(t)
    \/ \E t \in Threads : GetRandomLoop(t)
    \/ \E t \in Threads : GetRandomReturn(t)

Spec == Init /\ [][Next]_vars

\* ------------------------------------------------ vocabulary of the claims
Probability(bucket, i) == bucket[i][2]

NonEmptyPositive(bucket) ==
    /\ Len(bucket) > 0
    /\ \A i \in 1..Len(bucket) : Probability(bucket, i) > 0

\* The exact (unbounded) running sum of the probabilities leaves the int
\* range at some row.  sum is exact as long as no row has left the range.
RECURSIVE SumLeavesRange(_, _)
SumLeavesRange(bucket, sum) ==
    IF bucket = <<>> THEN FALSE
    ELSE LET w == Head(bucket)[2]
         IN  \/ w > 0 /\ sum > IntMax - w
             \/ w < 0 /\ sum < IntMin - w
             \/ SumLeavesRange(Tail(bucket), sum + w)

Overflows(bucket) == SumLeavesRange(bucket, 0)

\* The exact sum of the first n probabilities; used only where it is in range.
RECURSIVE ExactSum(_, _)
ExactSum(bucket, n) ==
    IF n = 0 THEN 0 ELSE ExactSum(bucket, n - 1) + Probability(bucket, n)

Prefix(bucket, n) == SubSeq(bucket, 1, n)

\* The row whose interval [sum before it, sum with it) of exact running
\* sums holds tg, for positive probabilities; 0 when tg is past every row.
RECURSIVE RowOfTarget(_, _, _)
RowOfTarget(bucket, tg, i) ==
    IF i > Len(bucket) THEN 0
    ELSE IF tg < Probability(bucket, i) THEN i
    ELSE RowOfTarget(bucket, tg - Probability(bucket, i), i + 1)

\* The data-model invariant of one sampler s built from bucket.
DataModelInvariant(s, bucket) ==
    /\ Len(s.Items) > 0
    /\ Len(s.Items) = Len(bucket)
    /\ \A i \in 1..Len(s.Items) :
         /\ s.Items[i].Value = bucket[i][1]
         /\ ~Overflows(Prefix(bucket, i))
         /\ s.Items[i].CumulativeWeight = ExactSum(bucket, i)
    /\ \A i \in 2..Len(s.Items) :
         s.Items[i].CumulativeWeight > s.Items[i - 1].CumulativeWeight
    /\ s.Items[Len(s.Items)].CumulativeWeight = s.MaxWeight

\* The invariant as far as the sampler alone shows it.
ValidSampler(s) ==
    /\ Len(s.Items) > 0
    /\ s.Items[1].CumulativeWeight > 0
    /\ \A i \in 2..Len(s.Items) :
         s.Items[i].CumulativeWeight > s.Items[i - 1].CumulativeWeight
    /\ s.Items[Len(s.Items)].CumulativeWeight = s.MaxWeight

\* ------------------------------------------------------------------ claims

\* C1: for a sampler built from a non-empty table of positive weights, a
\* completed draw returned the value of the leftmost entry whose
\* CumulativeWeight is strictly greater than the target; target 0 returned
\* the first value and target MaxWeight - 1 the last one.
C1_LeftmostGreater ==
    \A t \in Threads :
       (pc[t] = "done" /\ NonEmptyPositive(tempDict[data[t]])) =>
          LET items == d[data[t]].Items
              bucket == tempDict[data[t]]
          IN  /\ \E i \in 1..Len(items) :
                    /\ items[i].CumulativeWeight > target[t]
                    /\ \A j \in 1..(i - 1) :
                          items[j].CumulativeWeight <= target[t]
                    /\ ret[t] = items[i].Value
              /\ target[t] = 0 => ret[t] = bucket[1][1]
              /\ target[t] = d[data[t]].MaxWeight - 1 =>
                    ret[t] = bucket[Len(bucket)][1]

\* C2: for a sampler built from a non-empty table of positive weights, a
\* completed draw returned row i exactly when the target lies in the
\* interval of width weight_i that the exact running sums give row i, so
\* exactly weight_i targets select row i.
C2_ExactShare ==
    \A t \in Threads :
       (pc[t] = "done" /\ NonEmptyPositive(tempDict[data[t]])) =>
          LET bucket == tempDict[data[t]]
              i == RowOfTarget(bucket, target[t], 1)
          IN  i # 0 /\ ret[t] = bucket[i][1]

\* Supporting fact for C1 and C2 (not a claim): on every table of positive
\* weights whose exact running sum stays in the int range, a completed draw
\* returned the row whose interval holds the target.  The two claims fail
\* only on tables whose sum wraps.
SearchRightWithoutOverflow ==
    \A t \in Threads :
       (/\ pc[t] = "done"
        /\ NonEmptyPositive(tempDict[data[t]])
        /\ ~Overflows(tempDict[data[t]])) =>
          LET bucket == tempDict[data[t]]
              i == RowOfTarget(bucket, target[t], 1)
          IN  i # 0 /\ ret[t] = bucket[i][1]

\* C3: every sampler the initializer produces satisfies the data-model
\* invariant with respect to the table it was built from.
C3_DataModelInvariant ==
    status = "ready" =>
       \A k \in DOMAIN d : DataModelInvariant(d[k], tempDict[k])

\* C4: a key whose table is empty never gets a sampler: the initializer
\* does not complete, and no draw runs on a sampler without entries.
C4_EmptyTableRejected ==
    /\ \A k \in DOMAIN tempDict :
          tempDict[k] = <<>> => (status # "ready" /\ k \notin DOMAIN d)
    /\ \A t \in Threads : pc[t] # "idle" => Len(d[data[t]].Items) > 0

\* C5: a key whose table holds a weight <= 0 never gets a sampler, so no
\* such weight is accumulated into a cumulative array.
C5_NonPositiveWeightRejected ==
    \A k \in DOMAIN tempDict :
       (\E i \in 1..Len(tempDict[k]) : Probability(tempDict[k], i) <= 0) =>
          (status # "ready" /\ k \notin DOMAIN d)

\* C6: a key whose running sum leaves the 32-bit range never gets a
\* sampler, so no sampler carries a wrapped cumulative weight.
C6_OverflowRejected ==
    \A k \in DOMAIN tempDict :
       Overflows(tempDict[k]) => (status # "ready" /\ k \notin DOMAIN d)

\* C7: after the initializer, the registry has exactly the keys of the
\* source table, each with a non-empty sampler whose MaxWeight is the exact
\* sum of that key's weights alone.
C7_RegistryComplete ==
    status = "ready" =>
       /\ DOMAIN d = DOMAIN tempDict
       /\ \A k \in DOMAIN d :
             /\ Len(d[k].Items) > 0
             /\ ~Overflows(tempDict[k])
             /\ d[k].MaxWeight = ExactSum(tempDict[k], Len(tempDict[k]))

\* C8: once the initializer has run, no step of any interleaving of draws
\* changes d (or the source table), and every completed draw returned what
\* the same target gives when GetRandom runs alone.
C8_DrawWritesNothing ==
    [][status = "ready" =>
         /\ d' = d
         /\ tempDict' = tempDict
         /\ status' = status
         /\ \A t \in Threads :
               pc'[t] = "done" => ret'[t] = GetRandom(d[data'[t]], target'[t])
      ]_vars

\* C8 witness: one caller is in the middle of its search while the other
\* has completed a draw on the same sampler.
C8_Witness ==
    \E a, b \in Threads :
       /\ a # b
       /\ pc[a] = "loop" /\ left[a] < right[a]
       /\ right[a] < Len(d[data[a]].Items) - 1
       /\ pc[b] = "done" /\ data[b] = data[a]

\* C9: the result of a draw depends only on the sampler and the target:
\* two completed draws on the same sampler with the same target returned
\* the same value, whatever each caller drew before.
C9_Deterministic ==
    \A a, b \in Threads :
       (/\ pc[a] = "done" /\ pc[b] = "done"
        /\ data[a] = data[b] /\ target[a] = target[b]) => ret[a] = ret[b]

\* C9 witness: two callers completed a draw on the same sampler of several
\* entries with the same target, which selected an entry past the first.
C9_Witness ==
    \E a, b \in Threads :
       /\ a # b
       /\ pc[a] = "done" /\ pc[b] = "done"
       /\ data[a] = data[b] /\ target[a] = target[b]
       /\ Len(d[data[a]].Items) > 1
       /\ left[a] > 0

\* C10: in a draw on a sampler that satisfies the invariant, with a target
\* in [0, MaxWeight), the search keeps 0 <= left <= right <= n - 1 and
\* left <= mid < right before each iteration, every iteration strictly
\* decreases right - left, and the draw ends by returning entries[left]
\* from inside the array.
InsideSearch(t) ==
    /\ pc[t] = "loop"
    /\ ValidSampler(d[data[t]])
    /\ target[t] >= 0 /\ target[t] < d[data[t]].MaxWeight

C10_SearchStaysInside ==
    [][\A t \in Threads :
          InsideSearch(t) =>
             /\ 0 <= left[t] /\ left[t] <= right[t]
             /\ right[t] <= Len(d[data[t]].Items) - 1
             /\ left[t] < right[t] =>
                   LET lr == LoopBody(d[data[t]].Items, target[t],
                                      left[t], right[t])
                   IN  /\ left[t] <= Mid(left[t], right[t])
                       /\ Mid(left[t], right[t]) < right[t]
                       /\ lr[2] - lr[1] < right[t] - left[t]
             /\ (pc'[t] = "loop" /\ <<left'[t], right'[t]>> # <<left[t], right[t]>>)
                   => (right'[t] - left'[t] < right[t] - left[t])
             /\ pc'[t] # "loop" =>
                   (/\ pc'[t] = "done"
                    /\ left[t] = right[t]
                    /\ ret'[t] = d[data[t]].Items[left[t] + 1].Value)
      ]_vars

\* C10 witness: a search on a valid sampler of three entries has moved both
\* ends and reached its last index.
C10_Witness ==
    \E t \in Threads :
       /\ InsideSearch(t)
       /\ Len(d[data[t]].Items) = 3
       /\ left[t] = right[t]
       /\ left[t] = 1

====
